---- MODULE Spec2Model ----
(***************************************************************************)
(* Deduplication pipeline of popcorn_data_utils: remove_duplicates (exact  *)
(* dedup by sha256 of the text) followed by fuzzy_filter (MinHash          *)
(* signatures, datasketch MinHashLSH candidates, greedy filter_matrix).    *)
(* The module follows cleaning_utils.py and the tail of main() in          *)
(* create_keyword_dataset.py.  The datasketch calls are modelled by what   *)
(* the library does at the call sites, on scaled-down hash values.         *)
(***************************************************************************)
EXTENDS Integers, Sequences, FiniteSets, TLC

\* ------------------------------------------------------------------ bounds
MaxDocs == 3      \* documents in the input batch
MaxTime == 2      \* commit_time values 1..MaxTime
MaxNgram == 2     \* ngram_size values 0..MaxNgram
MaxBands == 2     \* bands values 0..MaxBands
MaxRows == 2      \* rows_per_band values 1..MaxRows

\* Texts of the batch: "" (empty), "a", "b", "ab", "Ab".
Texts == { <<>>, <<"a">>, <<"b">>, <<"a", "b">>, <<"A", "b">> }

\* Similarity thresholds, in tenths (0.3 and the default 0.7).
Thresholds == {3, 7}

\* ------------------------------------------------------- text conversions
\* Character codes; the upper-case letter has its own byte value.
CharCode(c) == CASE c = "a" -> 1 [] c = "b" -> 2 [] c = "A" -> 3

\* str.lower() on one character.
LowerChar(c) == IF c = "A" THEN "a" ELSE c

\* doc["input"].lower()
Lower(text) == [k \in 1..Len(text) |-> LowerChar(text[k])]

\* hashlib.sha256(text.encode()).hexdigest(): a digest of the bytes of the
\* text; distinct texts have distinct digests (collision resistance).
RECURSIVE Sha256(_)
Sha256(text) ==
    IF text = <<>> THEN 0
    ELSE 4 * Sha256(SubSeq(text, 1, Len(text) - 1)) + CharCode(text[Len(text)])

\* ------------------------------------------------------ remove_duplicates
\* remove_duplicates that never replaces the first document of a text.
RemoveDuplicatesStepKeepFirst(unique_functions, function) ==
    LET hash == Sha256(function.input)
    IN  IF \A k \in DOMAIN unique_functions : unique_functions[k].hash # hash
        THEN Append(unique_functions, [hash |-> hash, function |-> function])
        ELSE unique_functions

\* The body of the for loop: unique_functions is the dict, kept as the
\* sequence of its (hash, function) items in insertion order.
RemoveDuplicatesStep(unique_functions, function) ==
    LET hash == Sha256(function.input)
        at == {k \in DOMAIN unique_functions : unique_functions[k].hash = hash}
    IN  IF at = {}
        THEN Append(unique_functions, [hash |-> hash, function |-> function])
        ELSE LET k == CHOOSE k \in at : TRUE
             IN  IF function.commit_time > unique_functions[k].function.commit_time
                 THEN [unique_functions EXCEPT ![k].function = function]
                 ELSE unique_functions

RECURSIVE RemoveDuplicatesLoop(_, _)
RemoveDuplicatesLoop(functions, unique_functions) ==
    IF functions = <<>> THEN unique_functions
    ELSE RemoveDuplicatesLoop(Tail(functions),
                              RemoveDuplicatesStep(unique_functions, Head(functions)))

\* remove_duplicates(functions) = list(unique_functions.values())
RemoveDuplicates(functions) ==
    LET unique_functions == RemoveDuplicatesLoop(functions, <<>>)
    IN  [k \in DOMAIN unique_functions |-> unique_functions[k].function]

\* -------------------------------------------------------- create_minhashes
\* num_permutations = rows_per_band * bands
NumPermutations(bands, rows_per_band) == rows_per_band * bands

\* generate_ngrams(text, n): [text[i : i + n] for i in range(len(text) - n + 1)]
GenerateNgrams(text, n) ==
    [i \in 1..(Len(text) - n + 1) |-> SubSeq(text, i, i + n - 1)]

\* datasketch _mersenne_prime, scaled: the smallest Mersenne prime above
\* every shingle hash of the model.
MersennePrime ==
    LET primes == {3, 7, 31, 127, 8191}
        fit == {p \in primes : p >= 3 ^ MaxNgram}
    IN  CHOOSE p \in fit : \A q \in fit : p <= q

\* datasketch _max_hash, scaled: the initial value of every slot.  The mask
\* keeps every bit of a permuted value, so distinct shingles keep distinct
\* values in every slot.
MaxHash == MersennePrime

\* datasketch sha1_hash32 of an (already lower-cased) n-gram.
RECURSIVE Sha1Hash32(_)
Sha1Hash32(ngram) ==
    IF ngram = <<>> THEN 0
    ELSE 3 * Sha1Hash32(SubSeq(ngram, 1, Len(ngram) - 1))
         + CharCode(ngram[Len(ngram)])

\* The permutation parameters (a, b) of slot i that datasketch draws from
\* its generator seeded with the default seed 1: 1 <= a < p, 0 <= b < p.
PermA(i) == 1 + ((IF i % 2 = 1 THEN i ELSE MersennePrime - 1 - i) % (MersennePrime - 1))
PermB(i) == (3 * i) % MersennePrime

\* phv = bitwise_and((a * hv + b) % _mersenne_prime, _max_hash)
PermutedHash(i, hv) == ((PermA(i) * hv + PermB(i)) % MersennePrime) % (MaxHash + 1)

Min2(x, y) == IF x < y THEN x ELSE y

\* datasketch.MinHash(num_perm=num_permutations): every slot at _max_hash.
MinHashInit(num_perm) == [i \in 1..num_perm |-> MaxHash]

\* minhash.update(ngram.encode("utf8")): hashvalues = minimum(phv, hashvalues)
MinHashUpdate(hashvalues, ngram) ==
    [i \in DOMAIN hashvalues |->
        Min2(PermutedHash(i, Sha1Hash32(ngram)), hashvalues[i])]

RECURSIVE MinHashUpdateAll(_, _)
MinHashUpdateAll(hashvalues, ngrams) ==
    IF ngrams = <<>> THEN hashvalues
    ELSE MinHashUpdateAll(MinHashUpdate(hashvalues, Head(ngrams)), Tail(ngrams))

\* The body of the loop of create_minhashes for one document.
MinHashOf(doc, ngram_size, num_perm) ==
    MinHashUpdateAll(MinHashInit(num_perm),
                     GenerateNgrams(Lower(doc.input), ngram_size))

\* create_minhashes: minhash_dict as the sequence of its items (uuids are
\* unique, so no item is overwritten).
CreateMinhashes(docs, ngram_size, bands, rows_per_band) ==
    [k \in DOMAIN docs |->
        [uuid |-> docs[k].uuid,
         minhash |-> MinHashOf(docs[k], ngram_size,
                               NumPermutations(bands, rows_per_band))]]

\* ------------------------------------------------- datasketch.MinHashLSH
\* MinHashLSH(threshold, num_perm) chooses its own bands b and rows r from
\* the threshold (datasketch _optimal_param, weights 0.5/0.5): the pair
\* with b * r <= num_perm that minimises the sum of the integrals of the
\* false positive and false negative probabilities.  The integrals are
\* midpoint sums over tenths, in fixed point.
Scale == 10000

RECURSIVE FixedPow(_, _)
FixedPow(x, n) == IF n = 0 THEN Scale ELSE (FixedPow(x, n - 1) * x) \div Scale

\* 1 - (1 - s^r)^b at the midpoint s = (2k + 1) / 20
Probability(k, b, r) ==
    Scale - FixedPow(Scale - FixedPow((2 * k + 1) * (Scale \div 20), r), b)

RECURSIVE FalsePositive(_, _, _)
FalsePositive(k, b, r) ==
    IF k = 0 THEN 0 ELSE FalsePositive(k - 1, b, r) + Probability(k - 1, b, r)

RECURSIVE FalseNegative(_, _, _)
FalseNegative(k, b, r) ==
    IF k >= 10 THEN 0
    ELSE FalseNegative(k + 1, b, r) + (Scale - Probability(k, b, r))

LshError(threshold, b, r) ==
    FalsePositive(threshold, b, r) + FalseNegative(threshold, b, r)

\* _optimal_param: the loops run b upwards and then r upwards and replace
\* the optimum only on a strictly smaller error.
OptimalParam(threshold, num_perm) ==
    LET pairs == {p \in (1..num_perm) \X (1..num_perm) : p[1] * p[2] <= num_perm}
        errs == {<<p[1], p[2], LshError(threshold, p[1], p[2])>> : p \in pairs}
        before(p, q) == p[1] < q[1] \/ (p[1] = q[1] /\ p[2] <= q[2])
        opt == CHOOSE p \in errs :
                   \A q \in errs : p[3] < q[3] \/ (p[3] = q[3] /\ before(p, q))
    IN  <<opt[1], opt[2]>>

\* hashranges[i] = (i * r, (i + 1) * r): the slice of band i (1-based here).
Band(hashvalues, i, r) == SubSeq(hashvalues, (i - 1) * r + 1, i * r)

\* lsh.insert(uuid, minhash): the key goes into the bucket of each band.
\* hashtables is the set of (band index, band contents, key) entries.
LshInsert(hashtables, b, r, uuid, minhash) ==
    hashtables \cup {<<i, Band(minhash, i, r), uuid>> : i \in 1..b}

\* lsh.query(minhash): the union of the buckets of the bands of minhash.
LshQuery(hashtables, b, r, minhash) ==
    {e[3] : e \in {x \in hashtables : x[2] = Band(minhash, x[1], r)}}

\* lsh.query returns list(candidates): the elements of a set, in an order
\* the caller does not control (string keys hash differently in every
\* process).  The similarity matrix keeps the set; the order is drawn where
\* the list is iterated.
ListsOf(S) ==
    {l \in [1..Cardinality(S) -> S] : \A x \in S : \E k \in DOMAIN l : l[k] = x}

\* Every way the lists of a similarity matrix can be ordered.
RECURSIVE Orderings(_)
Orderings(matrix) ==
    IF matrix = <<>> THEN {<<>>}
    ELSE {<<[uuid |-> Head(matrix).uuid, similar_uuids |-> l]>> \o rest :
            l \in ListsOf(Head(matrix).similar_uuids),
            rest \in Orderings(Tail(matrix))}

\* ---------------------------------------------------------- filter_matrix
\* list.remove(x): drops the first occurrence of x.
RECURSIVE ListRemove(_, _)
ListRemove(list, x) ==
    IF list = <<>> THEN <<>>
    ELSE IF Head(list) = x THEN Tail(list)
    ELSE <<Head(list)>> \o ListRemove(Tail(list), x)

Elements(list) == {list[k] : k \in DOMAIN list}

\* filter_matrix that looks at the first similar_uuid only.
FilterInnerFirstOnly(good_uuids, uuid, similar_uuids, tiebreak_dict) ==
    IF similar_uuids = <<>> THEN good_uuids
    ELSE IF tiebreak_dict[uuid] < tiebreak_dict[Head(similar_uuids)]
         THEN ListRemove(good_uuids, uuid)
         ELSE good_uuids

\* filter_matrix that also removes uuid at a similar_uuid of equal tiebreak.
FilterInnerTiesDropped(good_uuids, uuid, similar_uuids, tiebreak_dict) ==
    IF \E k \in DOMAIN similar_uuids :
           tiebreak_dict[uuid] <= tiebreak_dict[similar_uuids[k]]
    THEN ListRemove(good_uuids, uuid)
    ELSE good_uuids

\* The inner loop: uuid is removed at the first similar_uuid that outranks
\* it, and the loop breaks.
RECURSIVE FilterInner(_, _, _, _)
FilterInner(good_uuids, uuid, similar_uuids, tiebreak_dict) ==
    IF similar_uuids = <<>> THEN good_uuids
    ELSE IF tiebreak_dict[uuid] < tiebreak_dict[Head(similar_uuids)]
         THEN ListRemove(good_uuids, uuid)
         ELSE FilterInner(good_uuids, uuid, Tail(similar_uuids), tiebreak_dict)

\* The outer loop over similarity_matrix.items().
RECURSIVE FilterOuter(_, _, _)
FilterOuter(items, good_uuids, tiebreak_dict) ==
    IF items = <<>> THEN good_uuids
    ELSE FilterOuter(Tail(items),
                     FilterInner(Append(good_uuids, Head(items).uuid),
                                 Head(items).uuid, Head(items).similar_uuids,
                                 tiebreak_dict),
                     tiebreak_dict)

\* filter_matrix that keeps one winner per cluster of two hops: a key also
\* loses to the candidates of its candidates.
FilterMatrixOneWinner(matrix, tiebreak_dict) ==
    LET near(u) == UNION {Elements(matrix[k].similar_uuids) :
                            k \in {j \in DOMAIN matrix : matrix[j].uuid = u}}
        known(S) == S \cap DOMAIN tiebreak_dict
    IN  {u \in Elements(FilterOuter(matrix, <<>>, tiebreak_dict)) :
            \A y \in known(near(u)) : \A z \in known(near(y)) :
                ~(tiebreak_dict[u] < tiebreak_dict[z])}

\* filter_matrix(similarity_matrix, tiebreak_dict) = set(good_uuids)
FilterMatrix(matrix, tiebreak_dict) ==
    Elements(FilterOuter(matrix, <<>>, tiebreak_dict))

\* ----------------------------------------------------------- fuzzy_filter
\* uuids_to_commit_time = {doc["uuid"]: doc["commit_time"] for doc in documents}
UuidsToCommitTime(docs) ==
    [u \in {docs[k].uuid : k \in DOMAIN docs} |->
        LET last == CHOOSE k \in DOMAIN docs :
                        /\ docs[k].uuid = u
                        /\ \A j \in DOMAIN docs : docs[j].uuid = u => j <= k
        IN  docs[last].commit_time]

\* create_similarity_matrix without its third loop.
RemoveSelfSkipped(matrix) == matrix

\* The third loop of create_similarity_matrix: the uuid leaves its own list.
RemoveSelf(matrix) ==
    [k \in DOMAIN matrix |->
        IF matrix[k].uuid \in matrix[k].similar_uuids
        THEN [matrix[k] EXCEPT !.similar_uuids = @ \ {matrix[k].uuid}]
        ELSE matrix[k]]

\* fuzzy_filter that returns its input unfiltered.
GoodDocumentsAll(docs, good) == docs

\* good_documents = [entry for entry in documents if entry["uuid"] in good_uuids]
GoodDocuments(docs, good) ==
    LET Keep(entry) == entry.uuid \in good IN SelectSeq(docs, Keep)

\* "Too few permutation functions": MinHashLSH refuses num_perm < 2.
LshRefuses(num_perm) == num_perm < 2

\* The query loop starting after the first insert.
InsertsCompleteEarly(k, n) == k >= 1

\* The insert loop has run over every item of minhashes.
InsertsComplete(k, n) == k = n

\* ------------------------------------------------------------------ state
VARIABLES
    documents,          \* dataset: the raw batch (main)
    ngram_size, bands, rows_per_band, threshold,   \* arguments of fuzzy_filter
    pc,                 \* the statement the run is at
    run,                \* 1: first run, 2: the same input run again
    dataset_dedup,      \* result of remove_duplicates
    minhashes,          \* minhash_dict items
    lsh,                \* <<b, r>> chosen by MinHashLSH
    hashtables,         \* the buckets of the index
    idx,                \* position of the insert / query loop
    similarity_matrix,  \* items of similarity_matrix
    good_uuids,         \* result of filter_matrix
    dataset_filtered,   \* result of fuzzy_filter
    first_filtered      \* dataset_filtered of the first run

vars == <<documents, ngram_size, bands, rows_per_band, threshold, pc, run,
          dataset_dedup, minhashes, lsh, hashtables, idx, similarity_matrix,
          good_uuids, dataset_filtered, first_filtered>>

inputs == <<documents, ngram_size, bands, rows_per_band, threshold>>

\* A batch: uuids are unique (uuid4 per entry), here the position.
Batches ==
    UNION { {[k \in 1..n |-> [uuid |-> k, input |-> t[k], commit_time |-> c[k]]] :
                t \in [1..n -> Texts], c \in [1..n -> 1..MaxTime]} :
            n \in 0..MaxDocs }

Fresh ==
    /\ pc = "remove_duplicates"
    /\ dataset_dedup = <<>>
    /\ minhashes = <<>>
    /\ lsh = <<0, 0>>
    /\ hashtables = {}
    /\ idx = 0
    /\ similarity_matrix = <<>>
    /\ good_uuids = {}
    /\ dataset_filtered = <<>>

Init ==
    /\ documents \in Batches
    /\ ngram_size \in 0..MaxNgram
    /\ bands \in 0..MaxBands
    /\ rows_per_band \in 1..MaxRows
    /\ threshold \in Thresholds
    /\ run = 1
    /\ first_filtered = <<>>
    /\ Fresh

\* main: dataset_dedup = remove_duplicates(dataset)
RemoveDuplicatesAct ==
    /\ pc = "remove_duplicates"
    /\ dataset_dedup' = RemoveDuplicates(documents)
    /\ pc' = "create_minhashes"
    /\ UNCHANGED <<inputs, run, minhashes, lsh, hashtables, idx,
                   similarity_matrix, good_uuids, dataset_filtered, first_filtered>>

\* fuzzy_filter: minhashes = create_minhashes(documents, ...)
CreateMinhashesAct ==
    /\ pc = "create_minhashes"
    /\ minhashes' = CreateMinhashes(dataset_dedup, ngram_size, bands, rows_per_band)
    /\ pc' = "lsh_init"
    /\ UNCHANGED <<inputs, run, dataset_dedup, lsh, hashtables, idx,
                   similarity_matrix, good_uuids, dataset_filtered, first_filtered>>

\* create_similarity_matrix: lsh = datasketch.MinHashLSH(threshold, num_perm)
LshInitAct ==
    /\ pc = "lsh_init"
    /\ IF LshRefuses(NumPermutations(bands, rows_per_band))
       THEN /\ pc' = "error"
            /\ UNCHANGED <<lsh, idx>>
       ELSE /\ lsh' = OptimalParam(threshold, NumPermutations(bands, rows_per_band))
            /\ idx' = 1
            /\ pc' = IF minhashes = <<>> THEN "remove_self" ELSE "insert"
    /\ hashtables' = {}
    /\ similarity_matrix' = <<>>
    /\ UNCHANGED <<inputs, run, dataset_dedup, minhashes, good_uuids,
                   dataset_filtered, first_filtered>>

\* One pass of the first loop: lsh.insert(uuid, minhash)
LshInsertAct ==
    /\ pc = "insert"
    /\ hashtables' = LshInsert(hashtables, lsh[1], lsh[2],
                               minhashes[idx].uuid, minhashes[idx].minhash)
    /\ IF InsertsComplete(idx, Len(minhashes))
       THEN pc' = "query" /\ idx' = 1
       ELSE pc' = "insert" /\ idx' = idx + 1
    /\ UNCHANGED <<inputs, run, dataset_dedup, minhashes, lsh, similarity_matrix,
                   good_uuids, dataset_filtered, first_filtered>>

\* One pass of the second loop: similarity_matrix[uuid] = lsh.query(minhash)
LshQueryAct ==
    /\ pc = "query"
    /\ similarity_matrix' =
          Append(similarity_matrix,
                 [uuid |-> minhashes[idx].uuid,
                  similar_uuids |-> LshQuery(hashtables, lsh[1], lsh[2],
                                             minhashes[idx].minhash)])
    /\ IF idx = Len(minhashes)
       THEN pc' = "remove_self" /\ idx' = 1
       ELSE pc' = "query" /\ idx' = idx + 1
    /\ UNCHANGED <<inputs, run, dataset_dedup, minhashes, lsh, hashtables,
                   good_uuids, dataset_filtered, first_filtered>>

\* The third loop, and the return of create_similarity_matrix
RemoveSelfAct ==
    /\ pc = "remove_self"
    /\ similarity_matrix' = RemoveSelf(similarity_matrix)
    /\ pc' = "filter_matrix"
    /\ UNCHANGED <<inputs, run, dataset_dedup, minhashes, lsh, hashtables, idx,
                   good_uuids, dataset_filtered, first_filtered>>

\* fuzzy_filter: good_uuids = filter_matrix(similarity_matrix, uuids_to_commit_time)
FilterMatrixAct ==
    /\ pc = "filter_matrix"
    /\ \E listed \in Orderings(similarity_matrix) :
          good_uuids' = FilterMatrix(listed, UuidsToCommitTime(dataset_dedup))
    /\ pc' = "return"
    /\ UNCHANGED <<inputs, run, dataset_dedup, minhashes, lsh, hashtables, idx,
                   similarity_matrix, dataset_filtered, first_filtered>>

\* fuzzy_filter returns good_documents; main stores it as dataset_filtered
ReturnAct ==
    /\ pc = "return"
    /\ dataset_filtered' = GoodDocuments(dataset_dedup, good_uuids)
    /\ pc' = "done"
    /\ UNCHANGED <<inputs, run, dataset_dedup, minhashes, lsh, hashtables, idx,
                   similarity_matrix, good_uuids, first_filtered>>

\* main is run again on the same dataset with the same arguments
Rerun ==
    /\ pc = "done"
    /\ run = 1
    /\ run' = 2
    /\ first_filtered' = dataset_filtered
    /\ pc' = "remove_duplicates"
    /\ dataset_dedup' = <<>>
    /\ minhashes' = <<>>
    /\ lsh' = <<0, 0>>
    /\ hashtables' = {}
    /\ idx' = 0
    /\ similarity_matrix' = <<>>
    /\ good_uuids' = {}
    /\ dataset_filtered' = <<>>
    /\ UNCHANGED inputs

Next ==
    \/ RemoveDuplicatesAct
    \/ CreateMinhashesAct
    \/ LshInitAct
    \/ LshInsertAct
    \/ LshQueryAct
    \/ RemoveSelfAct
    \/ FilterMatrixAct
    \/ ReturnAct
    \/ Rerun

Spec == Init /\ [][Next]_vars

\* ------------------------------------------------ filter_matrix on its own
\* filter_matrix applied to any similarity graph over the documents and any
\* commit times: the keys are the uuids in order, every candidate set is any
\* set of uuids.
FilterDocs(n) ==
    {[k \in 1..n |-> [uuid |-> k, input |-> [j \in 1..k |-> "a"],
                      commit_time |-> c[k]]] : c \in [1..n -> 1..MaxDocs]}

FilterGraphs(n) ==
    {[k \in 1..n |-> [uuid |-> k, similar_uuids |-> g[k]]] :
        g \in [1..n -> SUBSET (1..n)]}

InitFilter ==
    /\ \E n \in 0..MaxDocs :
          /\ documents \in FilterDocs(n)
          /\ similarity_matrix \in FilterGraphs(n)
    /\ dataset_dedup = documents
    /\ ngram_size = 1
    /\ bands = 1
    /\ rows_per_band = 2
    /\ threshold = 7
    /\ pc = "filter_matrix"
    /\ run = 1
    /\ minhashes = <<>>
    /\ lsh = <<1, 2>>
    /\ hashtables = {}
    /\ idx = 1
    /\ good_uuids = {}
    /\ dataset_filtered = <<>>
    /\ first_filtered = <<>>

NextFilter == FilterMatrixAct \/ ReturnAct

SpecFilter == InitFilter /\ [][NextFilter]_vars

\* ----------------------------------------------------------------- claims
Keys(matrix) == {matrix[k].uuid : k \in DOMAIN matrix}

\* The candidate set of uuid u in a similarity matrix.
CandidatesOf(matrix, u) ==
    UNION {matrix[k].similar_uuids : k \in {j \in DOMAIN matrix : matrix[j].uuid = u}}

CommitTimeOf(docs, u) ==
    (CHOOSE d \in Elements(docs) : d.uuid = u).commit_time

C2_ResolverRule ==
    pc = "return" =>
        /\ good_uuids \subseteq Keys(similarity_matrix)
        /\ \A x \in Keys(similarity_matrix) :
              x \notin good_uuids <=>
                 \E y \in CandidatesOf(similarity_matrix, x) :
                     CommitTimeOf(dataset_dedup, x) < CommitTimeOf(dataset_dedup, y)

\* C2 witness: one key was dropped, and another with a candidate was kept.
C2_Witness ==
    /\ pc = "return"
    /\ \E x, y \in Keys(similarity_matrix) :
          /\ x \notin good_uuids
          /\ y \in good_uuids
          /\ CandidatesOf(similarity_matrix, y) # {}
          /\ Cardinality(CandidatesOf(similarity_matrix, x)) >= 2

\* The similarity matrix is the one create_similarity_matrix returned.
GraphReturned == pc \in {"filter_matrix", "return", "done"}

\* C3: in the similarity graph create_similarity_matrix returns, no uuid is
\* in its own candidate set.
C3_SelfExclusion ==
    GraphReturned =>
        \A k \in DOMAIN similarity_matrix :
            similarity_matrix[k].uuid \notin similarity_matrix[k].similar_uuids

\* C3 witness: the graph was returned for a batch in which a query found
\* another document besides the querying one.
C3_Witness ==
    /\ pc = "filter_matrix"
    /\ Len(similarity_matrix) >= 2
    /\ \E k \in DOMAIN similarity_matrix : similarity_matrix[k].similar_uuids # {}

\* C4: once every document has been inserted and queried, the graph is
\* symmetric: y in candidates(x) implies x in candidates(y).
C4_Symmetric ==
    (pc = "remove_self" \/ GraphReturned) =>
        \A x, y \in Keys(similarity_matrix) :
            y \in CandidatesOf(similarity_matrix, x)
                => x \in CandidatesOf(similarity_matrix, y)

\* C4 witness: two different documents are candidates of each other while a
\* third document of the batch is a candidate of neither.
C4_Witness ==
    /\ pc = "filter_matrix"
    /\ \E x, y, z \in Keys(similarity_matrix) :
          /\ x # y
          /\ y \in CandidatesOf(similarity_matrix, x)
          /\ x \in CandidatesOf(similarity_matrix, y)
          /\ CandidatesOf(similarity_matrix, z) = {}

\* The set of n-grams (shingles) of a document.
Shingles(doc) == Elements(GenerateNgrams(Lower(doc.input), ngram_size))

\* The scenario of the specification, at the size of the model: documents 1
\* and 2 have the same text and commit_time(1) < commit_time(2); the
\* shingles of document 3 are disjoint from theirs, and neither set is empty.
Scenario ==
    /\ Len(documents) = 3
    /\ documents[1].input = documents[2].input
    /\ documents[1].commit_time < documents[2].commit_time
    /\ Shingles(documents[1]) # {}
    /\ Shingles(documents[3]) # {}
    /\ Shingles(documents[1]) \cap Shingles(documents[3]) = {}

\* The resolver's rule for document d over the graph of the survivors.
KeptByResolver(d) ==
    /\ d.uuid \in Keys(similarity_matrix)
    /\ \A y \in CandidatesOf(similarity_matrix, d.uuid) :
          ~(d.commit_time < CommitTimeOf(dataset_dedup, y))

\* C5: the pipeline returns documents of the input batch only; a document is
\* returned exactly when it survives remove_duplicates and the resolver
\* keeps it in the graph built over the survivors; in the scenario the
\* result is exactly documents 2 and 3.
C5_Pipeline ==
    pc = "done" =>
        /\ Elements(dataset_filtered) \subseteq Elements(documents)
        /\ Keys(similarity_matrix) = {d.uuid : d \in Elements(dataset_dedup)}
        /\ \A d \in Elements(documents) :
              d \in Elements(dataset_filtered)
                 <=> (d \in Elements(dataset_dedup) /\ KeptByResolver(d))
        /\ Scenario => {d.uuid : d \in Elements(dataset_filtered)} = {2, 3}

\* C5 witness: the pipeline has finished on the scenario.
C5_Witness == pc = "done" /\ Scenario

\* One of the inputs the entry point is said to refuse.
InvalidInput ==
    \/ ngram_size < 1
    \/ \E d \in Elements(documents) : d.input = <<>>
    \/ bands * rows_per_band = 0

\* C6: whenever ngram_size < 1, or a document's text is empty, or
\* bands * rows_per_band is zero, the run fails and never holds a kept set.
C6_InputError == InvalidInput => pc \notin {"return", "done"}

\* The minhash of uuid u.
MinhashOfUuid(u) ==
    (CHOOSE m \in Elements(minhashes) : m.uuid = u).minhash

\* The surviving document of uuid u.
DocOfUuid(u) == CHOOSE d \in Elements(dataset_dedup) : d.uuid = u

\* The text of the document is shorter than ngram_size.
ShortText(u) == Len(DocOfUuid(u).input) < ngram_size

\* C7: a document whose text is shorter than ngram_size has no candidates
\* and is a candidate of no other document.
C7_ShortNeverCandidate ==
    GraphReturned =>
        \A x \in Keys(similarity_matrix) :
            ShortText(x) =>
                /\ CandidatesOf(similarity_matrix, x) = {}
                /\ \A y \in Keys(similarity_matrix) :
                      x \notin CandidatesOf(similarity_matrix, y)

\* Some band of the bands x rows_per_band partition is equal in both.
SharesBand(hx, hy, nbands, nrows) ==
    \E i \in 1..nbands : Band(hx, i, nrows) = Band(hy, i, nrows)

\* C8: two documents are candidates exactly when one of the `bands` slices
\* of length `rows_per_band` of their signatures is equal, whatever the
\* threshold.
C8_BandRule ==
    GraphReturned =>
        \A x, y \in Keys(similarity_matrix) :
            x # y =>
               (y \in CandidatesOf(similarity_matrix, x)
                  <=> SharesBand(MinhashOfUuid(x), MinhashOfUuid(y),
                                 bands, rows_per_band))

\* C9: the second run on the same documents and arguments returns the kept
\* set of the first run.
C9_Deterministic ==
    (run = 2 /\ pc = "done") =>
        {d.uuid : d \in Elements(dataset_filtered)}
            = {d.uuid : d \in Elements(first_filtered)}

\* C9 witness: both runs are done on a batch where a document has two
\* candidates of different commit_time and a document was dropped.
C9_Witness ==
    /\ run = 2
    /\ pc = "done"
    /\ Len(dataset_filtered) < Len(dataset_dedup)
    /\ \E x \in Keys(similarity_matrix) :
          \E y, z \in CandidatesOf(similarity_matrix, x) :
              CommitTimeOf(dataset_dedup, y) < CommitTimeOf(dataset_dedup, z)

\* Every item of minhashes is in the bucket of each of its bands.
AllInserted ==
    \A k \in DOMAIN minhashes :
        \A i \in 1..lsh[1] :
            <<i, Band(minhashes[k].minhash, i, lsh[2]), minhashes[k].uuid>>
                \in hashtables

\* C10: while the query loop runs the index holds every document of the
\* batch, and no insert happens once a query has been made.
C10_InsertBeforeQuery ==
    /\ pc = "query" => AllInserted
    /\ pc = "insert" => similarity_matrix = <<>>

\* C10 witness: the first query of a batch of three documents is about to
\* be made.
C10_Witness ==
    /\ pc = "query"
    /\ idx = 1
    /\ Len(minhashes) = 3
    /\ similarity_matrix = <<>>

\* The graph is symmetric: y in candidates(x) implies x in candidates(y).
SymmetricGraph ==
    \A x, y \in Keys(similarity_matrix) :
        y \in CandidatesOf(similarity_matrix, x)
            => x \in CandidatesOf(similarity_matrix, y)

\* The commit times of the documents are pairwise distinct.
DistinctTimes ==
    \A i, j \in DOMAIN dataset_dedup :
        dataset_dedup[i].commit_time = dataset_dedup[j].commit_time => i = j

\* No candidate of x has a strictly greater commit_time than x.
LocalTop(x) ==
    \A c \in CandidatesOf(similarity_matrix, x) :
        ~(CommitTimeOf(dataset_dedup, x) < CommitTimeOf(dataset_dedup, c))

\* x and z are not candidates of each other, y is a candidate of both, and
\* x and z are each the most recent of their own neighbourhood.
IndirectPair(x, y, z) ==
    /\ x # z /\ x # y /\ y # z
    /\ z \notin CandidatesOf(similarity_matrix, x)
    /\ x \notin CandidatesOf(similarity_matrix, z)
    /\ y \in CandidatesOf(similarity_matrix, x)
    /\ y \in CandidatesOf(similarity_matrix, z)
    /\ LocalTop(x)
    /\ LocalTop(z)

\* C11: in a symmetric graph with pairwise distinct commit times, two
\* documents that are not candidates of each other, share a candidate and are
\* each the most recent of their own candidates are both kept, and the
\* shared candidate is dropped: one cluster keeps two documents.
C11_NoClusterWinner ==
    (pc = "return" /\ SymmetricGraph /\ DistinctTimes) =>
        \A x, y, z \in Keys(similarity_matrix) :
            IndirectPair(x, y, z) =>
                /\ x \in good_uuids
                /\ z \in good_uuids
                /\ y \notin good_uuids

\* C11 witness: filter_matrix has returned on such a graph, with both
\* indirectly similar documents kept and their shared candidate dropped.
C11_Witness ==
    /\ pc = "return"
    /\ SymmetricGraph
    /\ DistinctTimes
    /\ \E x, y, z \in Keys(similarity_matrix) :
          /\ IndirectPair(x, y, z)
          /\ {x, z} \subseteq good_uuids
          /\ y \notin good_uuids

\* x and y are candidates of each other.
MutualCandidates(x, y) ==
    /\ y \in CandidatesOf(similarity_matrix, x)
    /\ x \in CandidatesOf(similarity_matrix, y)

====
